---- MODULE Spec2Model ----
(***************************************************************************)
(* Particle simulation engine of Luminar-Light: the Swarm component of     *)
(* src/components/Swarm.tsx (its reset effect and its per-frame callback), *)
(* together with the props it is driven by.                                *)
(*                                                                         *)
(* Fixed-point representation.  Lengths and velocities are integers in     *)
(* hundredths of a world unit, times (delta, dt) in milliseconds, the      *)
(* timers deathTimer, ages and teleportTimer in thousandths, and           *)
(* timeScale / speedMult in hundredths.  A product with a fractional       *)
(* factor is rounded to the nearest integer (Round).  A JavaScript NaN     *)
(* (0/0 in a normalisation) is carried by the nan field of a vector.       *)
(***************************************************************************)
EXTENDS Integers, Sequences, FiniteSets, TLC

\* ------------------------------------------------------------------ bounds
NumSlots == 2
MaxTicks == 3
MaxResets == 1

\* ------------------------------------------------------- program constants
EMITTER_RATE == 20
MAX_SPEED == 45
FRICTION == 96
WarmupFrames == 20
UnlimitedFuel == 999999
CRITICAL_MASS_THRESHOLD == 50
ARENA_BOUNDS == [x |-> 1300, y |-> 650]

TRAIT_NORMAL == 0
TRAIT_TITAN == 1
TRAIT_ROGUE == 2
TRAIT_SPARK == 3
TRAIT_GHOST == 4
TRAIT_WEAVER == 5

Slots == 0..(NumSlots - 1)

\* ------------------------------------------------------------- arithmetic
Abs(n) == IF n < 0 THEN -n ELSE n

\* n / d rounded to the nearest integer, halves away from zero (d > 0)
Round(n, d) == IF n >= 0 THEN (2 * n + d) \div (2 * d) ELSE -((2 * (-n) + d) \div (2 * d))

RECURSIVE SqrtIter(_, _, _)
SqrtIter(n, lo, hi) ==
    IF lo >= hi THEN lo
    ELSE LET mid == (lo + hi + 1) \div 2
         IN  IF mid * mid <= n THEN SqrtIter(n, mid, hi) ELSE SqrtIter(n, lo, mid - 1)

\* Math.sqrt on a non-negative fixed-point square, truncated
Sqrt(n) == SqrtIter(n, 0, IF n < 46340 THEN n ELSE 46340)

Vec(x, y) == [x |-> x, y |-> y, nan |-> FALSE]
NaNVec == [x |-> 0, y |-> 0, nan |-> TRUE]
Offscreen == Vec(-999900, -999900)

DistSq(ax, ay, bx, by) == (ax - bx) * (ax - bx) + (ay - by) * (ay - by)

\* ------------------------------------------------------------ level data
\* LevelConfig values the engine is run on (src/unnamed/part_000 LevelConfig).
\* A budget that the level does not define is [defined |-> FALSE].
NoBudget == [defined |-> FALSE, value |-> 0]
Budget(n) == [defined |-> TRUE, value |-> n]

\* Level 1: boss level in the lower right corner of the arena with a finite
\*          budget, a wall before the right edge and a portal whose exit
\*          lies beyond the lower edge; the goal is out of reach.
\* Level 2: charge-gated level without budget: the goal covers the charge
\*          zone below the emitter and the black hole right of it; a static
\*          obstacle sits in the charge zone.
\* Level 3: emitter inside the goal, budget defined as 0.
\* Level 4: a wall as thick as the walls of the built-in levels (0.5) spans
\*          the arena between the emitter and the goal, no portals, finite
\*          budget; a black hole lies right of the emitter, outside the
\*          goal, its pull range ending short of the emitter.
\* Level 5: boss level with a pair of portals, each mouth the other's exit;
\*          the emitter lies in the first mouth, in a charge zone, and
\*          closer than 1.6 to the goal centre; the second mouth lies
\*          where the kill sector never points.
\* Level 6: malformed data: a charge-gated level whose charge zone (on the
\*          emitter) and goal (below it) have negative radii.
Levels ==
    << [id |-> 1, emitterPos |-> Vec(1200, -500), targetPos |-> Vec(700, 0),
        targetRadius |-> 120, obstaclePos |-> << >>, obstacleTypes |-> << >>,
        obstacleRadius |-> 100,
        walls |-> << [position |-> Vec(1290, -500), size |-> Vec(60, 100), rotation |-> 0] >>,
        portals |-> << [position |-> Vec(1200, -640), target |-> Vec(1200, -600)] >>,
        chargers |-> << >>,
        conversionRequired |-> FALSE, requiredCount |-> 3,
        particleBudget |-> Budget(3), isBossLevel |-> TRUE],
       [id |-> 2, emitterPos |-> Vec(0, 0), targetPos |-> Vec(40, -40),
        targetRadius |-> 50,
        obstaclePos |-> << Vec(50, 5), Vec(0, -50) >>,
        obstacleTypes |-> << "blackhole", "static" >>,
        obstacleRadius |-> 20,
        walls |-> << >>, portals |-> << >>,
        chargers |-> << [position |-> Vec(0, -48), radius |-> 10] >>,
        conversionRequired |-> TRUE, requiredCount |-> 3,
        particleBudget |-> NoBudget, isBossLevel |-> FALSE],
       [id |-> 3, emitterPos |-> Vec(0, 0), targetPos |-> Vec(0, 0),
        targetRadius |-> 120, obstaclePos |-> << >>, obstacleTypes |-> << >>,
        obstacleRadius |-> 100, walls |-> << >>, portals |-> << >>, chargers |-> << >>,
        conversionRequired |-> FALSE, requiredCount |-> 4,
        particleBudget |-> Budget(0), isBossLevel |-> FALSE],
       [id |-> 4, emitterPos |-> Vec(0, 0), targetPos |-> Vec(0, -250),
        targetRadius |-> 100,
        obstaclePos |-> << Vec(50, 5) >>, obstacleTypes |-> << "blackhole" >>,
        obstacleRadius |-> 20,
        walls |-> << [position |-> Vec(0, -100), size |-> Vec(2700, 50), rotation |-> 0] >>,
        portals |-> << >>, chargers |-> << >>,
        conversionRequired |-> FALSE, requiredCount |-> 3,
        particleBudget |-> Budget(3), isBossLevel |-> FALSE],
       [id |-> 5, emitterPos |-> Vec(0, 0), targetPos |-> Vec(0, -100),
        targetRadius |-> 50, obstaclePos |-> << >>, obstacleTypes |-> << >>,
        obstacleRadius |-> 100, walls |-> << >>,
        portals |-> << [position |-> Vec(50, 0), target |-> Vec(-400, -300)],
                       [position |-> Vec(-400, -300), target |-> Vec(50, 0)] >>,
        chargers |-> << [position |-> Vec(0, 0), radius |-> 10] >>,
        conversionRequired |-> FALSE, requiredCount |-> 3,
        particleBudget |-> NoBudget, isBossLevel |-> TRUE],
       [id |-> 6, emitterPos |-> Vec(0, 0), targetPos |-> Vec(0, -60),
        targetRadius |-> -50, obstaclePos |-> << >>, obstacleTypes |-> << >>,
        obstacleRadius |-> 100, walls |-> << >>, portals |-> << >>,
        chargers |-> << [position |-> Vec(0, 0), radius |-> -10] >>,
        conversionRequired |-> TRUE, requiredCount |-> 3,
        particleBudget |-> Budget(3), isBossLevel |-> FALSE],
       [id |-> 7, emitterPos |-> Vec(0, 0), targetPos |-> Vec(0, -100),
        targetRadius |-> 52, obstaclePos |-> << >>, obstacleTypes |-> << >>,
        obstacleRadius |-> 100, walls |-> << >>, portals |-> << >>, chargers |-> << >>,
        conversionRequired |-> FALSE, requiredCount |-> 1,
        particleBudget |-> Budget(3), isBossLevel |-> FALSE] >>

\* The level with malformed data
MalformedLevel == 6

\* The level a single capture completes; its goal begins 0.48 below the
\* emitter, where an agent's first step ends or does not end by its trait
SingleCaptureLevel == 7

\* Spec and SceneSpec select among the other levels
LevelIds == (1..Len(Levels)) \ {MalformedLevel, SingleCaptureLevel}

\* ----------------------------------------------------------- tick inputs
\* What one invocation of the per-frame callback reads from outside the
\* component: the frame delta (ms), the props isPaused and sandboxSettings
\* as rendered at that frame, the shared anomaly list, the frame clock, and
\* the velocity contribution (drive) of the forces that depend on the drawn
\* paths and the pointer (chaos, turbulence, path attraction and flow,
\* mouse attractor), taken to be the same for every agent of the tick.
NoAnomalies == << >>
HazardAtOrigin ==
    << [position |-> Vec(0, 0), radius |-> 50, isActive |-> TRUE, type |-> "hazard"] >>
PulseAtOrigin ==
    << [position |-> Vec(0, 0), radius |-> 150, isActive |-> TRUE, type |-> "pulse"] >>

\* One reading of the frame clock: the boss sector's rotation (quarter
\* turns) and sin(elapsedTime * 2 + o) of the pulsar radius (hundredths).
ClockA == [rot |-> 0, sin |-> 0]
ClockB == [rot |-> 1, sin |-> 100]

Drives == { Vec(0, 0), Vec(50, 0), Vec(0, -50) }

Sandbox(ts, infiniteAmmo, invincibility) ==
    [timeScale |-> ts, infiniteAmmo |-> infiniteAmmo, invincibility |-> invincibility,
     speedMult |-> 100]

\* paths: the polylines drawn so far, oldest first; none unless a frame is
\* given some with WithPaths
NoPaths == << >>

Frame(paused, delta, sb, anomalies, clock, drive) ==
    [isPaused |-> paused, delta |-> delta, sandboxSettings |-> sb, anomalies |-> anomalies,
     clock |-> clock, drive |-> drive, paths |-> NoPaths]

WithPaths(f, ps) == [f EXCEPT !.paths = ps]

DefaultSandbox == Sandbox(100, FALSE, FALSE)

Frames ==
    { Frame(FALSE, 100, DefaultSandbox, NoAnomalies, ClockA, d) : d \in Drives }
    \cup { Frame(FALSE, 100, Sandbox(100, FALSE, TRUE), NoAnomalies, ClockA, d) : d \in Drives }
    \cup { Frame(TRUE, 100, DefaultSandbox, NoAnomalies, ClockA, Vec(0, 0)),
           Frame(FALSE, 0, DefaultSandbox, NoAnomalies, ClockA, Vec(0, 0)),
           Frame(FALSE, 8000, DefaultSandbox, NoAnomalies, ClockA, Vec(0, 0)),
           Frame(FALSE, 100, Sandbox(10, FALSE, FALSE), NoAnomalies, ClockA, Vec(50, 0)),
           Frame(FALSE, 100, Sandbox(100, TRUE, FALSE), NoAnomalies, ClockA, Vec(0, 0)),
           Frame(FALSE, 100, DefaultSandbox, HazardAtOrigin, ClockA, Vec(0, 0)),
           Frame(FALSE, 100, DefaultSandbox, PulseAtOrigin, ClockA, Vec(0, 0)),
           Frame(FALSE, 100, DefaultSandbox, NoAnomalies, ClockB, Vec(0, 0)),
           Frame(FALSE, 100, Sandbox(400, FALSE, FALSE), NoAnomalies, ClockA, Vec(0, -50)) }

\* Values of Math.random() (thousandths) for the trait roll.
TraitRolls == {500, 870}

\* -------------------------------------------------------- per-agent update
\* The body of the particle loop works on a record w: the slot's stored
\* fields (life, age, trait, dT, charge, tele, pos, vel), the locals x, y
\* (w.x, w.y, w.xnan) and vx, vy (w.v), cont (a `continue` of the particle
\* loop was taken), and what the iteration reports: captured
\* (collectedThisFrame++), mass (obstacle whose counter was incremented, 0
\* for none), lethal (a lethal event set deathTimer), tp (relocated by a
\* portal), full (the arena bounds step was reached).
\* The tick's inputs are a record in: dt, ts (timeScale), inv
\* (invincibility), speedMult, lvl (levelConfig), anomalies, clock.

AddV(v, ax, ay) == IF v.nan THEN v ELSE [v EXCEPT !.x = @ + ax, !.y = @ + ay]

\* lines 247-295: explosion and implosion animations
DeathAnimation(w, in) ==
    IF w.dT > 0
    THEN LET t == w.dT - 4 * in.dt
         IN  IF t <= 0 THEN [w EXCEPT !.life = 0, !.dT = 0, !.cont = TRUE]
             ELSE [w EXCEPT !.dT = t, !.cont = TRUE]
    ELSE LET t == w.dT + Round(3 * in.dt, 2)
         IN  IF t >= 0 THEN [w EXCEPT !.life = 0, !.dT = 0, !.cont = TRUE]
             ELSE [w EXCEPT !.dT = t, !.cont = TRUE,
                            !.pos = IF w.pos.nan \/ w.vel.nan THEN NaNVec
                                    ELSE Vec(w.pos.x + Round(w.vel.x * in.dt, 200),
                                             w.pos.y + Round(w.vel.y * in.dt, 200))]

\* Variant: the agent does not age.
Aging_NoGrowth(w, in) ==
    [w EXCEPT !.v = w.vel, !.x = w.pos.x, !.y = w.pos.y, !.xnan = w.pos.nan]

\* lines 297-311: read the locals, age the agent, free it past the age cap
Aging(w, in) ==
    LET a == w.age + Round(8 * in.dt, 100)
        r == [w EXCEPT !.age = a, !.v = w.vel, !.x = w.pos.x, !.y = w.pos.y,
                       !.xnan = w.pos.nan]
    IN  IF a > 1200 THEN [r EXCEPT !.life = 0, !.cont = TRUE] ELSE r

\* (x, y) is closer than r to (c.x, c.y); false when x, y are NaN
Within(w, c, r) == ~w.xnan /\ DistSq(w.x, w.y, c.x, c.y) < r * r

\* Variant: the flag follows the zones, cleared for an agent outside all of them.
RECURSIVE Chargers_Toggle(_, _, _)
Chargers_Toggle(w, in, k) ==
    IF w.cont \/ k > Len(in.lvl.chargers) THEN w
    ELSE LET c == in.lvl.chargers[k]
         IN  Chargers_Toggle([w EXCEPT !.charge = IF Within(w, c.position, c.radius) THEN 1 ELSE 0],
                             in, k + 1)

\* lines 313-323
RECURSIVE Chargers(_, _, _)
Chargers(w, in, k) ==
    IF w.cont \/ k > Len(in.lvl.chargers) THEN w
    ELSE LET c == in.lvl.chargers[k]
         IN  Chargers(IF Within(w, c.position, c.radius) THEN [w EXCEPT !.charge = 1] ELSE w,
                      in, k + 1)

\* lines 221-233, 325-341: the rotating kill sector of a boss level
InBossSector(w, in) ==
    LET dx == w.x - in.lvl.targetPos.x
        dy == w.y - in.lvl.targetPos.y
        q == in.clock.rot % 4
        cosR == IF q = 0 THEN 1 ELSE IF q = 2 THEN -1 ELSE 0
        sinR == IF q = 1 THEN 1 ELSE IF q = 3 THEN -1 ELSE 0
        localX == dx * cosR - dy * sinR
        localY == dx * sinR + dy * cosR
        dSq == dx * dx + dy * dy
    IN  /\ ~w.xnan
        /\ dSq < 1000 * 1000 /\ dSq > 160 * 160
        \* 0 < atan2(localY, localX) < 2.0, cot(2.0) = -0.4577
        /\ localY > 0 /\ 10000 * localX > -4577 * localY

\* Variant: the sector kills whatever the sandbox says.
Boss_Ungated(w, in) ==
    IF ~w.cont /\ in.lvl.isBossLevel /\ InBossSector(w, in)
    THEN [w EXCEPT !.dT = 1000, !.cont = TRUE, !.lethal = TRUE]
    ELSE w

\* Variant: the sector sets the death timer but the iteration goes on.
Boss_NoContinue(w, in) ==
    IF ~w.cont /\ in.lvl.isBossLevel /\ ~in.inv /\ InBossSector(w, in)
    THEN [w EXCEPT !.dT = 1000, !.lethal = TRUE]
    ELSE w

Boss(w, in) ==
    IF ~w.cont /\ in.lvl.isBossLevel /\ ~in.inv /\ InBossSector(w, in)
    THEN [w EXCEPT !.dT = 1000, !.cont = TRUE, !.lethal = TRUE]
    ELSE w

\* lines 343-388, 436-482: chaos, turbulence, titan gravity, mouse attractor
\* and the path forces, as one drawn contribution to vx, vy
Drive(w, d) == IF w.cont THEN w ELSE [w EXCEPT !.v = AddV(w.v, d.x, d.y)]

\* lines 438-441: nothing found yet; indexes as in the source, from 0
NoClosest == [pathIdx |-> -1, pointIdx |-> -1, distSq |-> 0]

\* lines 446-456: every second point of one polyline, from source index p
RECURSIVE ScanPath(_, _, _, _, _, _)
ScanPath(path, pathIdx, p, x, y, best) ==
    IF p >= Len(path) THEN best
    ELSE LET px == path[p + 1].x
             py == path[p + 1].y
             distSq == (x - px) * (x - px) + (y - py) * (y - py)
             next == IF best.pathIdx = -1 \/ distSq < best.distSq
                     THEN [pathIdx |-> pathIdx, pointIdx |-> p, distSq |-> distSq]
                     ELSE best
         IN  ScanPath(path, pathIdx, p + 2, x, y, next)

\* lines 442-457: the polylines in index order; one of fewer than two
\* points is passed over
RECURSIVE ScanPaths(_, _, _, _, _)
ScanPaths(paths, pathIdx, x, y, best) ==
    IF pathIdx >= Len(paths) THEN best
    ELSE LET path == paths[pathIdx + 1]
             next == IF Len(path) < 2 THEN best ELSE ScanPath(path, pathIdx, 0, x, y, best)
         IN  ScanPaths(paths, pathIdx + 1, x, y, next)

\* lines 436-459: the closest point search over the drawn polylines; the
\* point it finds acts on the agent when it lies within 2.0.  The forces it
\* then adds are part of Drive's contribution.  A NaN coordinate compares
\* false with everything and finds nothing.
PathSearch(w, in) ==
    IF w.cont \/ w.xnan THEN w
    ELSE LET found == ScanPaths(in.paths, 0, w.x, w.y, NoClosest)
         IN  IF found.pathIdx # -1 /\ found.distSq < 40000
             THEN [w EXCEPT !.closest = found]
             ELSE w

\* lines 390-434; the `continue` of line 404 continues the anomaly loop
OneAnomaly(w, in, an) ==
    LET adx == w.x - an.position.x
        ady == w.y - an.position.y
        adistSq == adx * adx + ady * ady
        interactRadius == IF an.type = "pulse" THEN an.radius ELSE 2 * an.radius
        adist == Sqrt(adistSq)
        Push(num, den) == IF den = 0 THEN [w EXCEPT !.v = NaNVec]
                          ELSE [w EXCEPT !.v = AddV(w.v, Round(adx * num, den), Round(ady * num, den))]
    IN  IF ~an.isActive \/ w.xnan \/ ~(adistSq < interactRadius * interactRadius) THEN w
        ELSE IF an.type \in {"void", "hazard"}
        THEN IF in.inv THEN w
             ELSE IF an.type = "hazard" \/ adistSq < 2500
             THEN [w EXCEPT !.dT = 1000, !.lethal = TRUE]
             ELSE LET pulled == Push(-50 * (an.radius - adist), adist * an.radius)
                  IN  IF an.type = "void"
                      THEN [pulled EXCEPT !.v = AddV(pulled.v, Round(-ady * 50, adist), Round(adx * 50, adist))]
                      ELSE pulled
        ELSE IF an.type = "pulse"
        THEN IF in.inv THEN w
             ELSE Push(200 * (interactRadius - adist), adist * interactRadius)
        ELSE IF an.type = "spirit" THEN Push(-5, adist)
        ELSE Push(30, adist)

RECURSIVE Anomalies(_, _, _)
Anomalies(w, in, k) ==
    IF w.cont \/ k > Len(in.anomalies) THEN w
    ELSE Anomalies(OneAnomaly(w, in, in.anomalies[k]), in, k + 1)

\* constants.ts getObstaclePos: obstacles without a motion behavior stay at
\* their base position
getObstaclePos(basePos) == basePos

\* lines 484-538; w.brk records the `break` of the obstacle loop
OneObstacle(w, in, o) ==
    LET obsPos == getObstaclePos(in.lvl.obstaclePos[o])
        type == in.lvl.obstacleTypes[o]
        dx == w.x - obsPos.x
        dy == w.y - obsPos.y
        distSq == dx * dx + dy * dy
        rad == IF in.lvl.obstacleRadius = 0 THEN 100 ELSE in.lvl.obstacleRadius
        collisionRad == Round(rad * 7, 10)
        pullRange == Round(rad * 25, 10)
        killRad == Round(rad * 6, 10)
        dist == Sqrt(distSq)
        pulseRad == Round(rad * (100 + Round(in.clock.sin * 4, 10)), 100)
    IN  IF w.xnan THEN w
        ELSE IF type = "blackhole"
        THEN IF ~(distSq < pullRange * pullRange) THEN w
             ELSE LET g == IF dist = 0 THEN [w EXCEPT !.v = NaNVec]
                           ELSE [w EXCEPT !.v = AddV(w.v,
                                    Round(-dx * 8 * (pullRange - dist), dist * pullRange)
                                      + Round(-dy * 35 * (pullRange - dist), dist * pullRange),
                                    Round(-dy * 8 * (pullRange - dist), dist * pullRange)
                                      + Round(dx * 35 * (pullRange - dist), dist * pullRange))]
                  IN  IF ~in.inv /\ distSq < killRad * killRad
                      THEN [g EXCEPT !.dT = -1000,
                                     !.vel = IF dist = 0 THEN NaNVec
                                             ELSE Vec(Round(dx * 200, dist), Round(dy * 200, dist)),
                                     !.mass = o, !.lethal = TRUE, !.brk = TRUE]
                      ELSE g
        ELSE IF type = "pulsar"
        THEN IF ~(distSq < pulseRad * pulseRad) THEN w
             ELSE IF dist = 0 THEN [w EXCEPT !.v = NaNVec]
             ELSE [w EXCEPT !.v = AddV(w.v, Round(dx * 30, dist), Round(dy * 30, dist))]
        ELSE IF distSq < collisionRad * collisionRad /\ ~in.inv
             THEN [w EXCEPT !.dT = 1000, !.lethal = TRUE, !.brk = TRUE]
             ELSE w

RECURSIVE ObstacleLoop(_, _, _)
ObstacleLoop(w, in, o) ==
    IF o > Len(in.lvl.obstaclePos) \/ w.brk THEN w
    ELSE ObstacleLoop(OneObstacle(w, in, o), in, o + 1)

Obstacles(w, in) ==
    IF ~w.cont /\ w.trait # TRAIT_GHOST THEN [ObstacleLoop(w, in, 1) EXCEPT !.brk = FALSE] ELSE w

Min4(a, b, c, d) ==
    LET m1 == IF a < b THEN a ELSE b
        m2 == IF c < d THEN c ELSE d
    IN  IF m1 < m2 THEN m1 ELSE m2

\* lines 541-600 for a wall with rotation 0 (cos = 1, sin = 0); the
\* `continue` of line 569 continues the wall loop
OneWall(w, in, wall, wallRoll) ==
    LET halfW == wall.size.x \div 2
        halfH == wall.size.y \div 2
        localX == w.x - wall.position.x
        localY == w.y - wall.position.y
        localXNext == localX + Round(w.v.x * in.dt, 1000)
        localYNext == localY + Round(w.v.y * in.dt, 1000)
        pad == 20
        Inside(lx, ly) == lx > -halfW - pad /\ lx < halfW + pad /\ ly > -halfH - pad /\ ly < halfH + pad
        hit == ~w.xnan /\ (Inside(localX, localY) \/ (~w.v.nan /\ Inside(localXNext, localYNext)))
        distToLeft == localX + halfW
        distToRight == halfW - localX
        distToTop == halfH - localY
        distToBottom == localY + halfH
        min == Min4(distToLeft, distToRight, distToTop, distToBottom)
        pushX == IF min = distToLeft THEN -1 ELSE IF min = distToRight THEN 1 ELSE 0
        pushY == IF pushX # 0 THEN 0 ELSE IF min = distToBottom THEN -1 ELSE 1
        pushDist == min + 5
        dot == w.v.x * pushX + w.v.y * pushY
    IN  IF ~hit THEN w
        ELSE IF wallRoll THEN [w EXCEPT !.dT = 1000, !.lethal = TRUE]
        ELSE [w EXCEPT !.pos = Vec(localX + pushX * pushDist + wall.position.x,
                                   localY + pushY * pushDist + wall.position.y),
                       !.v = IF w.v.nan THEN NaNVec
                             ELSE Vec(Round(w.v.x - 2 * dot * pushX, 2),
                                      Round(w.v.y - 2 * dot * pushY, 2)),
                       !.pushed = TRUE]

RECURSIVE WallLoop(_, _, _, _)
WallLoop(w, in, k, wallRoll) ==
    IF k > Len(in.lvl.walls) THEN w
    ELSE WallLoop(OneWall(w, in, in.lvl.walls[k], wallRoll), in, k + 1, wallRoll)

Walls(w, in, wallRoll) == IF ~w.cont /\ ~in.inv THEN WallLoop(w, in, 1, wallRoll) ELSE w

\* lines 603-620
OnePortal(w, portal) ==
    LET speedSq == w.v.x * w.v.x + w.v.y * w.v.y
        speed == IF w.v.nan \/ Sqrt(speedSq) = 0 THEN 10 ELSE Sqrt(speedSq)
    IN  IF ~Within(w, portal.position, 100) THEN w
        ELSE [w EXCEPT !.pos = IF w.v.nan THEN NaNVec
                               ELSE Vec(portal.target.x + Round(w.v.x * 150, speed),
                                        portal.target.y + Round(w.v.y * 150, speed)),
                       !.tele = 1000, !.tp = TRUE]

RECURSIVE PortalLoop(_, _, _)
PortalLoop(w, in, k) ==
    IF k > Len(in.lvl.portals) THEN w
    ELSE PortalLoop(OnePortal(w, in.lvl.portals[k]), in, k + 1)

\* Variant: the portals take an agent whatever its cooldown.
Portals_NoCooldown(w, in) == IF ~w.cont THEN PortalLoop(w, in, 1) ELSE w

Portals(w, in) == IF ~w.cont /\ w.tele <= 0 THEN PortalLoop(w, in, 1) ELSE w

\* Variant: the goal captures every agent inside its radius, charged or not.
Goal_NoChargeGate(w, in) ==
    IF ~w.cont /\ Within(w, in.lvl.targetPos, in.lvl.targetRadius)
    THEN [w EXCEPT !.life = 0, !.captured = TRUE, !.cont = TRUE]
    ELSE w

\* lines 622-638
Goal(w, in) ==
    IF ~w.cont /\ Within(w, in.lvl.targetPos, in.lvl.targetRadius)
    THEN IF in.lvl.conversionRequired /\ w.charge = 0
         THEN [w EXCEPT !.dT = 1000, !.cont = TRUE, !.lethal = TRUE, !.goalKill = TRUE]
         ELSE [w EXCEPT !.life = 0, !.captured = TRUE, !.cont = TRUE]
    ELSE w

\* lines 640-657: friction and the age- and trait-modulated speed cap
effectiveMaxSpeed(w, in) ==
    LET \* baseMaxSpeed * (1.0 - ages[i] * 0.3), in thousandths of a world unit
        aged == Round(MAX_SPEED * in.speedMult * (10000 - 3 * w.age), 100000)
        young == IF w.age < 200 THEN 13 ELSE 10
        old == IF w.age > 800 THEN 6 ELSE 10
        tr == IF w.trait = TRAIT_TITAN THEN 6
              ELSE IF w.trait = TRAIT_SPARK THEN 22
              ELSE IF w.trait = TRAIT_GHOST THEN 12 ELSE 10
    IN  Round(aged * young * old * tr, 10000)

FrictionAndCap(w, in) ==
    LET friction == IF w.trait = TRAIT_TITAN THEN 98
                    ELSE IF w.trait = TRAIT_GHOST THEN 99 ELSE FRICTION
        vx == Round(w.v.x * friction, 100)
        vy == Round(w.v.y * friction, 100)
        cap == effectiveMaxSpeed(w, in)
        speedSq == vx * vx + vy * vy
        speed == Sqrt(speedSq)
    IN  IF w.cont \/ w.v.nan THEN w
        ELSE IF speedSq > cap * cap
        THEN [w EXCEPT !.v = Vec(Round(vx * cap, speed), Round(vy * cap, speed))]
        ELSE [w EXCEPT !.v = Vec(vx, vy)]

\* lines 659-663: store the velocity, integrate the position
Integrate(w, in) ==
    LET to == IF w.pos.nan \/ w.v.nan THEN NaNVec
              ELSE Vec(w.pos.x + Round(w.v.x * in.ts, 100), w.pos.y + Round(w.v.y * in.ts, 100))
    IN  IF w.cont THEN w ELSE [w EXCEPT !.vel = w.v, !.pos = to, !.moved = to]

\* lines 665-668: clamp to the arena and flip the velocity, edge by edge;
\* no comparison with a NaN position is true
BoundRight(w) ==
    IF ~w.pos.nan /\ w.pos.x > ARENA_BOUNDS.x
    THEN [w EXCEPT !.pos.x = ARENA_BOUNDS.x, !.vel.x = -w.vel.x] ELSE w

BoundLeft(w) ==
    IF ~w.pos.nan /\ w.pos.x < -ARENA_BOUNDS.x
    THEN [w EXCEPT !.pos.x = -ARENA_BOUNDS.x, !.vel.x = -w.vel.x] ELSE w

BoundTop(w) ==
    IF ~w.pos.nan /\ w.pos.y > ARENA_BOUNDS.y
    THEN [w EXCEPT !.pos.y = ARENA_BOUNDS.y, !.vel.y = -w.vel.y] ELSE w

BoundBottom(w) ==
    IF ~w.pos.nan /\ w.pos.y < -ARENA_BOUNDS.y
    THEN [w EXCEPT !.pos.y = -ARENA_BOUNDS.y, !.vel.y = -w.vel.y] ELSE w

ArenaBounds(w) ==
    IF w.cont THEN w
    ELSE [BoundBottom(BoundTop(BoundLeft(BoundRight(w)))) EXCEPT !.full = TRUE]

\* lines 297-668: the full update of a live agent that is not dying; every
\* stage after a `continue` of the particle loop (w.cont) is skipped
FullUpdate(w, in, d) ==
    ArenaBounds(Integrate(FrictionAndCap(Goal(Portals(Walls(Obstacles(PathSearch(Anomalies(
        Drive(Boss(Chargers(Aging(w, in), in, 1), in), d.drive),
        in, 1), in), in), in, d.wallRoll), in), in), in), in))

\* lines 235-745: one iteration of the particle loop on slot record p
Work(p) ==
    [life |-> p.life, age |-> p.age, trait |-> p.trait, dT |-> p.dT, charge |-> p.charge,
     tele |-> p.tele, pos |-> p.pos, vel |-> p.vel,
     x |-> 0, y |-> 0, xnan |-> FALSE, v |-> Vec(0, 0), cont |-> FALSE, brk |-> FALSE,
     active |-> FALSE, captured |-> FALSE, mass |-> 0, lethal |-> FALSE, goalKill |-> FALSE,
     tp |-> FALSE, pushed |-> FALSE, full |-> FALSE, moved |-> Vec(0, 0),
     wasDying |-> p.dT # 0, spawned |-> FALSE, closest |-> NoClosest]

StepAgent(p, in, d) ==
    LET w == Work(p)
    IN  IF p.life <= 0 /\ p.dT = 0 THEN w
        ELSE LET t == [w EXCEPT !.active = TRUE,
                                !.tele = IF w.tele > 0 THEN w.tele - in.dt ELSE w.tele]
             IN  IF t.dT # 0 THEN DeathAnimation(t, in) ELSE FullUpdate(t, in, d)

\* ------------------------------------------------------------------ state
VARIABLES
    \* props of the Swarm component the reset effect depends on
    levelId,          \* levelConfig.id; levelConfig is Levels[levelId]
    resetKey,
    \* refs and buffers of the component
    life, ages, traits, deathTimer, chargeState, teleportTimer, positions, velocities,
    collectedCountRef, frameCountRef, currentFuelRef, hasWonRef, activeLevelId,
    blackHoleStateRef,
    effectPending,    \* the reset effect's dependencies changed, it has not run yet
    \* SceneManager's anomalyRef.current, the list shared with the Anomalies
    \* component.  Under Spec the list a tick reads comes with the frame
    \* (f.anomalies) and this variable is left alone; SceneSpec follows the
    \* list itself and its writers.
    anomalyRef,
    \* history
    lastOp,           \* the operation that produced this state; a tick is "run" when
                      \* it ran the pipeline and "tick" when it returned at a guard
    frame,            \* what the last tick read: isPaused, sandboxSettings, delta, ...
    calls,            \* the callbacks that operation fired, in order
    report,           \* per slot, what the last tick's loop iteration did
    spawnedTotal,     \* agents spawned since the last reset
    capCount,         \* per slot: captures counted for the current incarnation
    massCount,        \* per slot: mass increments caused by the current incarnation
    sinceTeleport,    \* per slot: scaled dt (ms) the agent has run since a portal last
                      \* relocated it, counted up to 1000; 1000 if none did
    wonCalls,         \* onLevelComplete calls since the last reset
    infiniteUsed,     \* a tick since the last reset emitted with infiniteAmmo on
    ticks             \* ticks that ran the pipeline

props == <<levelId, resetKey>>
buffers == <<life, ages, traits, deathTimer, chargeState, teleportTimer, positions, velocities>>
refs == <<collectedCountRef, frameCountRef, currentFuelRef, hasWonRef, activeLevelId,
          blackHoleStateRef>>
history == <<spawnedTotal, capCount, massCount, sinceTeleport, wonCalls, infiniteUsed, ticks>>
vars == <<props, buffers, refs, effectPending, anomalyRef, lastOp, frame, calls, report, history>>

levelConfig == Levels[levelId]

SlotRec(i) ==
    [life |-> life[i], age |-> ages[i], trait |-> traits[i], dT |-> deathTimer[i],
     charge |-> chargeState[i], tele |-> teleportTimer[i], pos |-> positions[i],
     vel |-> velocities[i]]

FreeRec ==
    [life |-> 0, age |-> 0, trait |-> TRAIT_NORMAL, dT |-> 0, charge |-> 0, tele |-> 0,
     pos |-> Offscreen, vel |-> Vec(0, 0)]

NoReport == [i \in Slots |-> [Work(FreeRec) EXCEPT !.pos = Vec(0, 0)]]
NoFrame == Frame(TRUE, 0, DefaultSandbox, NoAnomalies, ClockA, Vec(0, 0))

\* State after construction: zeroed typed arrays, refs at their useRef
\* defaults, the mount effect not yet run, the game not yet started.
Init ==
    /\ levelId = 1
    /\ resetKey = 0
    /\ life = [i \in Slots |-> 0]
    /\ ages = [i \in Slots |-> 0]
    /\ traits = [i \in Slots |-> 0]
    /\ deathTimer = [i \in Slots |-> 0]
    /\ chargeState = [i \in Slots |-> 0]
    /\ teleportTimer = [i \in Slots |-> 0]
    /\ positions = [i \in Slots |-> Vec(0, 0)]
    /\ velocities = [i \in Slots |-> Vec(0, 0)]
    /\ collectedCountRef = 0
    /\ frameCountRef = 0
    /\ currentFuelRef = 0
    /\ hasWonRef = FALSE
    /\ activeLevelId = -1
    /\ blackHoleStateRef = << >>
    /\ effectPending = TRUE
    /\ anomalyRef = << >>
    /\ lastOp = "init"
    /\ frame = NoFrame
    /\ calls = << >>
    /\ report = NoReport
    /\ spawnedTotal = 0
    /\ capCount = [i \in Slots |-> 0]
    /\ massCount = [i \in Slots |-> 0]
    /\ sinceTeleport = [i \in Slots |-> 1000]
    /\ wonCalls = 0
    /\ infiniteUsed = FALSE
    /\ ticks = 0

\* ------------------------------------------------------------------ reset
\* lines 104: currentFuelRef.current = levelConfig.particleBudget || 999999
InitialFuel(budget) ==
    IF ~budget.defined \/ budget.value = 0 THEN UnlimitedFuel ELSE budget.value

\* lines 96-136: the reset effect
ResetEffect ==
    /\ effectPending
    /\ effectPending' = FALSE
    /\ collectedCountRef' = 0
    /\ frameCountRef' = 0
    /\ currentFuelRef' = InitialFuel(levelConfig.particleBudget)
    /\ hasWonRef' = FALSE
    /\ calls' = << <<"onProgress", 0>>, <<"onActiveCount", 0>> >>
    /\ blackHoleStateRef' = <<0, 0, 0, 0, 0>>
    /\ life' = [i \in Slots |-> 0]
    /\ ages' = [i \in Slots |-> 0]
    /\ deathTimer' = [i \in Slots |-> 0]
    /\ chargeState' = [i \in Slots |-> 0]
    /\ teleportTimer' = [i \in Slots |-> 0]
    /\ traits' = [i \in Slots |-> TRAIT_NORMAL]
    /\ positions' = [i \in Slots |-> Offscreen]
    /\ velocities' = [i \in Slots |-> Vec(0, 0)]
    /\ activeLevelId' = levelId
    /\ lastOp' = "reset"
    /\ frame' = NoFrame
    /\ report' = NoReport
    /\ spawnedTotal' = 0
    /\ capCount' = [i \in Slots |-> 0]
    /\ massCount' = [i \in Slots |-> 0]
    /\ sinceTeleport' = [i \in Slots |-> 1000]
    /\ wonCalls' = 0
    /\ infiniteUsed' = FALSE
    /\ UNCHANGED <<props, anomalyRef, ticks>>

\* --------------------------------------------------------------- emission
\* lines 177-183: trait thresholds on one Math.random() value (thousandths)
TraitOf(rand) ==
    IF rand > 985 THEN TRAIT_TITAN
    ELSE IF rand > 940 THEN TRAIT_SPARK
    ELSE IF rand > 900 THEN TRAIT_ROGUE
    ELSE IF rand > 850 THEN TRAIT_GHOST
    ELSE IF rand > 800 THEN TRAIT_WEAVER
    ELSE TRAIT_NORMAL

\* lines 170-194: the fields written when slot i is spawned; the position
\* jitter and the initial velocity are taken at Math.random() = 0.5
Spawned(lvl, rand) ==
    [life |-> 1, age |-> 0, trait |-> TraitOf(rand), dT |-> 0, charge |-> 0, tele |-> 0,
     pos |-> Vec(lvl.emitterPos.x, lvl.emitterPos.y), vel |-> Vec(0, 0)]

\* Variant: a slot is reused as soon as its agent is not alive, also during
\* its death animation.
IsFree_DeadOnly(p) == p.life <= 0

\* line 170: the slot can be reused for spawning
IsFree(p) == p.life <= 0 /\ p.dT = 0

\* line 168: if (spawnedThisFrame >= scaledEmitterRate) break
RateReached(spawned, ts) == spawned * 100 >= EMITTER_RATE * ts

\* lines 198-200: a spawn consumes one unit of fuel unless fuel is infinite
FuelAfterSpawn(fuel, isInfinite) == IF isInfinite THEN fuel ELSE fuel - 1

\* lines 167-202: the spawn loop from slot i on; st = [P, spawned, fuel, who]
RECURSIVE EmitLoop(_, _, _, _, _, _)
EmitLoop(i, st, lvl, ts, isInfinite, rolls) ==
    IF i >= NumSlots \/ RateReached(st.spawned, ts) THEN st
    ELSE IF IsFree(st.P[i])
         THEN EmitLoop(i + 1,
                       [P |-> [st.P EXCEPT ![i] = Spawned(lvl, rolls[i])],
                        spawned |-> st.spawned + 1,
                        fuel |-> FuelAfterSpawn(st.fuel, isInfinite),
                        who |-> st.who \cup {i}],
                       lvl, ts, isInfinite, rolls)
         ELSE EmitLoop(i + 1, st, lvl, ts, isInfinite, rolls)

\* line 157
ShouldEmit(isInfinite, fuel) == isInfinite \/ fuel > 0

\* lines 155-207: the emission step
Emission(P, fuel, lvl, ts, infiniteAmmo, rolls) ==
    LET hasBudget == lvl.particleBudget.defined
        isInfinite == ~hasBudget \/ infiniteAmmo
        st0 == [P |-> P, spawned |-> 0, fuel |-> fuel, who |-> {}]
        st == IF ShouldEmit(isInfinite, fuel)
              THEN EmitLoop(0, st0, lvl, ts, isInfinite, rolls) ELSE st0
    IN  [P |-> st.P, spawned |-> st.spawned, fuel |-> st.fuel, who |-> st.who,
         calls |-> IF ShouldEmit(isInfinite, fuel) /\ ~isInfinite /\ st.spawned > 0
                   THEN << <<"setFuel", st.fuel>> >> ELSE << >>]

\* ------------------------------------------------------------------- tick
\* line 149: sandboxSettings.timeScale || 1
timeScale(sb) == IF sb.timeScale = 0 THEN 100 ELSE sb.timeScale

\* line 558: Math.random() < 0.35, drawn for each agent
AgentDraws == [wallRoll : BOOLEAN]

\* The results the particle loop can leave for slots 0 .. k-1, as sequences
RECURSIVE LoopResults(_, _, _, _)
LoopResults(P, in, drive, k) ==
    IF k = 0 THEN { << >> }
    ELSE LET outs == { StepAgent(P[k - 1], in, [drive |-> drive, wallRoll |-> d.wallRoll])
                       : d \in AgentDraws }
         IN  { Append(s, o) : s \in LoopResults(P, in, drive, k - 1), o \in outs }

\* lines 516: blackHoleStateRef.current[o] = (blackHoleStateRef.current[o] || 0) + 1,
\* for the slots in loop order
RECURSIVE AddMass(_, _, _)
AddMass(bh, res, k) ==
    IF k > Len(res) THEN bh
    ELSE AddMass(IF res[k].mass # 0 THEN [bh EXCEPT ![res[k].mass] = @ + 1] ELSE bh, res, k + 1)

\* line 238: currentActive++ for every slot the loop does not skip
ActiveIn(res) == Cardinality({k \in 1..Len(res) : res[k].active})

\* line 633: collectedThisFrame++ for every capture
CollectedIn(res) == Cardinality({k \in 1..Len(res) : res[k].captured})

\* Variant: the win is reported at the first capture, whatever the count.
LevelCompleteNow_AnyCapture(collected, required, won) == ~won

\* lines 750-771: what the tick reports after the loop
LevelCompleteNow(collected, required, won) == collected >= required /\ ~won

Reports(currentActive, collectedThisFrame, collected, required, won, frameCount) ==
    (IF frameCount % 10 = 0 THEN << <<"onActiveCount", currentActive>> >> ELSE << >>)
    \o (IF collectedThisFrame > 0 THEN << <<"onProgress", collected>> >> ELSE << >>)
    \o (IF collectedThisFrame > 0 /\ LevelCompleteNow(collected, required, won)
        THEN << <<"onLevelComplete", 0>> >> ELSE << >>)

\* Variant: the tick does not compare the level ids.
Returns_WonOnly == hasWonRef
\* Variant: the tick does not look at the won flag.
Returns_LevelOnly == activeLevelId # levelId

\* lines 138-152: the guards before the pipeline
Returns == activeLevelId # levelId \/ hasWonRef
\* Variant: a single tick is skipped after a reset.
WarmingUp_OneFrame == ~Returns /\ frameCountRef < 1

WarmingUp == ~Returns /\ frameCountRef < WarmupFrames
Runs(f) ==
    ~Returns /\ ~WarmingUp /\ ~f.isPaused /\ Round(f.delta * timeScale(f.sandboxSettings), 100) > 0

\* lines 154-772: the pipeline of one tick that reads frame f
Pipeline(f, rolls) ==
    LET sb == f.sandboxSettings
        dt == Round(f.delta * timeScale(sb), 100)
        in == [dt |-> dt, ts |-> timeScale(sb), inv |-> sb.invincibility,
               speedMult |-> sb.speedMult, lvl |-> levelConfig,
               anomalies |-> f.anomalies, clock |-> f.clock, paths |-> f.paths]
        em == Emission([i \in Slots |-> SlotRec(i)], currentFuelRef, levelConfig, timeScale(sb),
                       sb.infiniteAmmo, rolls)
    IN  /\ \E res \in LoopResults(em.P, in, f.drive, NumSlots) :
             LET collectedThisFrame == CollectedIn(res)
                 collected == collectedCountRef + collectedThisFrame
                 wins == collectedThisFrame > 0
                         /\ LevelCompleteNow(collected, levelConfig.requiredCount, hasWonRef)
             IN  /\ life' = [i \in Slots |-> res[i + 1].life]
                 /\ ages' = [i \in Slots |-> res[i + 1].age]
                 /\ traits' = [i \in Slots |-> res[i + 1].trait]
                 /\ deathTimer' = [i \in Slots |-> res[i + 1].dT]
                 /\ chargeState' = [i \in Slots |-> res[i + 1].charge]
                 /\ teleportTimer' = [i \in Slots |-> res[i + 1].tele]
                 /\ positions' = [i \in Slots |-> res[i + 1].pos]
                 /\ velocities' = [i \in Slots |-> res[i + 1].vel]
                 /\ currentFuelRef' = em.fuel
                 /\ blackHoleStateRef' = AddMass(blackHoleStateRef, res, 1)
                 /\ collectedCountRef' = collected
                 /\ hasWonRef' = (hasWonRef \/ wins)
                 /\ calls' = em.calls \o Reports(ActiveIn(res), collectedThisFrame, collected,
                                                 levelConfig.requiredCount, hasWonRef, frameCountRef)
                 /\ report' = [i \in Slots |-> [res[i + 1] EXCEPT !.spawned = i \in em.who]]
                 /\ spawnedTotal' = spawnedTotal + em.spawned
                 /\ capCount' = [i \in Slots |->
                        (IF i \in em.who THEN 0 ELSE capCount[i])
                        + (IF res[i + 1].captured THEN 1 ELSE 0)]
                 /\ massCount' = [i \in Slots |->
                        (IF i \in em.who THEN 0 ELSE massCount[i])
                        + (IF res[i + 1].mass # 0 THEN 1 ELSE 0)]
                 /\ sinceTeleport' = [i \in Slots |->
                        LET before == IF i \in em.who THEN 1000 ELSE sinceTeleport[i]
                        IN  IF res[i + 1].tp THEN 0
                            ELSE IF res[i + 1].active /\ before + dt < 1000 THEN before + dt
                            ELSE IF res[i + 1].active THEN 1000 ELSE before]
                 /\ wonCalls' = wonCalls + (IF wins THEN 1 ELSE 0)
                 /\ infiniteUsed' = (infiniteUsed \/ sb.infiniteAmmo)
        /\ UNCHANGED <<props, frameCountRef, activeLevelId, effectPending>>

\* A tick that runs the pipeline, counted against MaxTicks
RunTick(f, rolls) ==
    /\ ticks < MaxTicks
    /\ ticks' = ticks + 1
    /\ Pipeline(f, rolls)

\* Trait rolls for the slots emission can spawn into
Rolls == { r \in [Slots -> TraitRolls] : \A i \in Slots : ~IsFree(SlotRec(i)) => r[i] = 500 }

\* lines 138-773: the per-frame callback on the inputs f
TickWith(f) ==
    /\ lastOp' = IF ~Returns /\ ~WarmingUp /\ Runs(f) THEN "run" ELSE "tick"
    /\ frame' = IF Returns THEN NoFrame ELSE f   \* line 138 returns before any read
    /\ UNCHANGED anomalyRef
    /\ IF Returns
       THEN /\ calls' = << >>
            /\ report' = NoReport
            /\ UNCHANGED <<props, buffers, refs, effectPending, history>>
       ELSE IF WarmingUp
       THEN /\ frameCountRef' = frameCountRef + 1
            /\ calls' = << >>
            /\ report' = NoReport
            /\ UNCHANGED <<props, buffers, collectedCountRef, currentFuelRef, hasWonRef,
                           activeLevelId, blackHoleStateRef, effectPending, history>>
       ELSE IF ~Runs(f)
       THEN /\ calls' = << >>
            /\ report' = NoReport
            /\ UNCHANGED <<props, buffers, refs, effectPending, history>>
       ELSE \E rolls \in Rolls : RunTick(f, rolls)

Tick == \E f \in Frames : TickWith(f)

\* ------------------------------------------------------------ prop changes
Quiet(op) ==
    /\ lastOp' = op
    /\ frame' = NoFrame
    /\ calls' = << >>
    /\ report' = NoReport
    /\ UNCHANGED <<buffers, refs, anomalyRef, history>>

\* App: another level is selected; the reset effect's dependency
\* levelConfig.id changes
SelectLevel(l) ==
    /\ l # levelId
    /\ resetKey < MaxResets
    /\ levelId' = l
    /\ resetKey' = resetKey + 1
    /\ effectPending' = TRUE
    /\ Quiet("select")

\* App: the level is restarted; resetKey is incremented
Restart ==
    /\ resetKey < MaxResets
    /\ resetKey' = resetKey + 1
    /\ effectPending' = TRUE
    /\ Quiet("restart")
    /\ UNCHANGED levelId

Next ==
    \/ ResetEffect
    \/ Tick
    \/ \E l \in LevelIds : SelectLevel(l)
    \/ Restart

Spec == Init /\ [][Next]_vars

\* ------------------------------------------------- the scene's shared refs
\* SceneManager creates blackHoleStateRef and anomalyRef and hands them to
\* Swarm, Anomalies and Background.  SceneSpec runs the swarm on a level with
\* a black hole together with the other callbacks that touch the two refs,
\* each callback one action, interleaved in any order.
SceneLevel == 4

\* Appends to the list between two frames of the Anomalies component
MaxAnomalies == 1

\* Anomalies (part_002): the lists its pool of active anomalies can leave
VoidAtCorner ==
    << [position |-> Vec(1000, 500), radius |-> 150, isActive |-> TRUE, type |-> "void"] >>
AnomalyPools == { NoAnomalies, VoidAtCorner }

\* SceneManager handlePointerUp: the point of a click
ClickPoints == { Vec(-1000, 500) }

SceneFrames == { Frame(FALSE, 100, DefaultSandbox, NoAnomalies, ClockA, Vec(50, 0)) }

\* What a callback other than the swarm's leaves alone
Elsewhere(op) ==
    /\ lastOp' = op
    /\ frame' = NoFrame
    /\ calls' = << >>
    /\ report' = NoReport
    /\ UNCHANGED <<props, buffers, collectedCountRef, frameCountRef, currentFuelRef, hasWonRef,
                   activeLevelId, effectPending, history>>

\* The swarm's tick reads the shared list (line 391)
SceneTick == \E f \in SceneFrames : TickWith([f EXCEPT !.anomalies = anomalyRef])

\* part_001 lines 106-127: st = [bh, list] after the supernova check of
\* mass counters i .. length
RECURSIVE SupernovaLoop(_, _, _)
SupernovaLoop(st, lvl, i) ==
    IF i > Len(st.bh) THEN st
    ELSE IF st.bh[i] > CRITICAL_MASS_THRESHOLD
    THEN SupernovaLoop(
             [bh |-> [st.bh EXCEPT ![i] = 0],
              list |-> IF i <= Len(lvl.obstaclePos)
                       THEN Append(st.list, [position |-> lvl.obstaclePos[i], radius |-> 800,
                                             isActive |-> TRUE, type |-> "pulse"])
                       ELSE st.list],
             lvl, i + 1)
    ELSE SupernovaLoop(st, lvl, i + 1)

\* part_001 lines 106-127: SceneManager's per-frame callback
Supernova ==
    LET st == SupernovaLoop([bh |-> blackHoleStateRef, list |-> anomalyRef], levelConfig, 1)
    IN  /\ Len(st.list) <= MaxAnomalies + 1
        /\ blackHoleStateRef' = st.bh
        /\ anomalyRef' = st.list
        /\ Elsewhere("supernova")

\* part_001 lines 178-195: a pointer-up that ends a click
PointerUp ==
    \E pt \in ClickPoints :
        /\ Len(anomalyRef) < MaxAnomalies
        /\ anomalyRef' = Append(anomalyRef, [position |-> pt, radius |-> 500,
                                             isActive |-> TRUE, type |-> "pulse"])
        /\ Elsewhere("pointerUp")
        /\ UNCHANGED blackHoleStateRef

\* Background.tsx lines 519-527: a debris particle comes within 1.2 radii of
\* black hole o during Background's per-frame callback.  The supernova check
\* of every frame keeps the counter from running far past the threshold.
EatDebris(o) ==
    /\ o <= Len(levelConfig.obstaclePos)
    /\ levelConfig.obstacleTypes[o] = "blackhole"
    /\ o <= Len(blackHoleStateRef)
    /\ blackHoleStateRef[o] <= CRITICAL_MASS_THRESHOLD
    /\ blackHoleStateRef' = [blackHoleStateRef EXCEPT ![o] = @ + 1]
    /\ Elsewhere("debris")
    /\ UNCHANGED anomalyRef

\* part_002 lines 41-192: the Anomalies component's per-frame callback
AnomaliesFrame ==
    \E isPlaying \in BOOLEAN, pool \in AnomalyPools :
        /\ anomalyRef' = IF isPlaying THEN pool ELSE anomalyRef
        /\ Elsewhere("anomalies")
        /\ UNCHANGED blackHoleStateRef

SceneNext ==
    \/ ResetEffect
    \/ SelectLevel(SceneLevel)
    \/ SceneTick
    \/ Supernova
    \/ PointerUp
    \/ \E o \in 1..5 : EatDebris(o)
    \/ AnomaliesFrame

SceneSpec == Init /\ [][SceneNext]_vars

\* ------------------------------------------------------ the emitter's rate
\* EmitterSpec runs the swarm with a time scale that makes
\* EMITTER_RATE * timeScale fractional (20 * 0.01 = 0.2) next to one that
\* does not (20 * 0.1 = 2).
EmitterScales == { 1, 10 }

EmitterFrames ==
    { Frame(FALSE, 100, Sandbox(ts, FALSE, FALSE), NoAnomalies, ClockA, d) :
        ts \in EmitterScales, d \in Drives }

EmitterTick == \E f \in EmitterFrames : TickWith(f)

EmitterNext ==
    \/ ResetEffect
    \/ EmitterTick
    \/ Restart

EmitterSpec == Init /\ [][EmitterNext]_vars

\* ------------------------------------------------------- ticks without end
\* RunningSpec lets the swarm tick for ever on the first level (budget 3):
\* every frame is unpaused with dt = 0.1, and the frames keep coming.  The
\* ticks are not counted against MaxTicks.
RunningFrames ==
    { Frame(FALSE, 100, DefaultSandbox, NoAnomalies, ClockA, Vec(0, -50)),
      Frame(FALSE, 100, DefaultSandbox, NoAnomalies, ClockB, Vec(0, 0)) }

\* One tick that reads frame f, not counted against MaxTicks
TickUncounted(f) ==
    IF ~Returns /\ ~WarmingUp /\ Runs(f)
    THEN /\ lastOp' = "run"
         /\ frame' = f
         /\ UNCHANGED <<anomalyRef, ticks>>
         /\ \E rolls \in Rolls : Pipeline(f, rolls)
    ELSE TickWith(f)

RunningTick == \E f \in RunningFrames : TickUncounted(f)

RunningNext ==
    \/ ResetEffect
    \/ RunningTick

\* No slot holds an agent
AllFree == \A i \in Slots : life[i] <= 0 /\ deathTimer[i] = 0

\* The frames keep coming: a tick changes the state again and again, unless
\* the swarm is empty again and again.  Weak fairness of the tick implies
\* this, since a tick that finds an agent changes the state (the agent ages
\* or its death timer moves).
RunningSpec ==
    Init /\ [][RunningNext]_vars /\ (([]<>AllFree) \/ ([]<><<RunningTick>>_vars))

\* ------------------------------------------------------- malformed levels
\* MalformedSpec runs the swarm on the level with negative radii.
MalformedFrames ==
    { Frame(FALSE, 100, DefaultSandbox, NoAnomalies, ClockA, d) : d \in Drives }

MalformedTick == \E f \in MalformedFrames : TickWith(f)

MalformedNext ==
    \/ ResetEffect
    \/ SelectLevel(MalformedLevel)
    \/ MalformedTick

MalformedSpec == Init /\ [][MalformedNext]_vars

\* ------------------------------------------------------ drawn polylines
\* PathSpec runs the swarm on the first level with polylines drawn around
\* the emitter at (12, -5).  East and West each start 1.0 from the emitter,
\* on opposite sides; Near passes within 0.5 of it at its third point; Dot
\* is a pointer-down without a move, a polyline of one point.
East == << Vec(1300, -500), Vec(1300, -400) >>
West == << Vec(1100, -500), Vec(1100, -400) >>
Near == << Vec(1400, -500), Vec(1300, -450), Vec(1200, -450) >>
Dot == << Vec(1200, -500) >>

Polylines == { East, West, Near, Dot }

PathLists ==
    { NoPaths } \cup { << a >> : a \in Polylines }
                \cup { << a, b >> : a \in Polylines, b \in Polylines }

PathFrames ==
    { WithPaths(Frame(FALSE, 100, DefaultSandbox, NoAnomalies, ClockA, d), ps) :
        d \in { Vec(0, 0), Vec(0, -50) }, ps \in PathLists }

PathTick == \E f \in PathFrames : TickWith(f)

PathNext ==
    \/ ResetEffect
    \/ PathTick
    \/ Restart

PathSpec == Init /\ [][PathNext]_vars

\* ------------------------------------------------------ changing levels
\* SwitchSpec changes the level twice, between the level whose goal lies on
\* the emitter (3) and the charge-gated one (2), so that a level is left
\* with captures counted, or won, and the next one is played.
MaxSwitches == 2
MaxSwitchTicks == 6

SwitchLevels == { 2, 3 }

SwitchFrames ==
    { Frame(FALSE, 100, DefaultSandbox, NoAnomalies, ClockA, Vec(0, -50)),
      Frame(TRUE, 100, DefaultSandbox, NoAnomalies, ClockA, Vec(0, 0)) }

\* One tick; those that run the pipeline are counted against MaxSwitchTicks
SwitchTick ==
    \E f \in SwitchFrames :
        IF ~Returns /\ ~WarmingUp /\ Runs(f)
        THEN /\ ticks < MaxSwitchTicks
             /\ ticks' = ticks + 1
             /\ lastOp' = "run"
             /\ frame' = f
             /\ UNCHANGED anomalyRef
             /\ \E rolls \in Rolls : Pipeline(f, rolls)
        ELSE TickWith(f)

\* App: another level is selected, as SelectLevel, up to MaxSwitches times
SwitchLevel(l) ==
    /\ l # levelId
    /\ resetKey < MaxSwitches
    /\ levelId' = l
    /\ resetKey' = resetKey + 1
    /\ effectPending' = TRUE
    /\ Quiet("select")

SwitchNext ==
    \/ ResetEffect
    \/ SwitchTick
    \/ \E l \in SwitchLevels : SwitchLevel(l)

SwitchSpec == Init /\ [][SwitchNext]_vars

\* ------------------------------------------------------- after the win
\* WonSpec runs the swarm on the level that one capture completes, so that
\* the level is won while another agent is on its way.
WonFrames ==
    { Frame(FALSE, 100, DefaultSandbox, NoAnomalies, ClockA, Vec(0, -50)),
      Frame(TRUE, 100, DefaultSandbox, NoAnomalies, ClockA, Vec(0, 0)) }

WonTick == \E f \in WonFrames : TickWith(f)

WonNext ==
    \/ ResetEffect
    \/ SelectLevel(SingleCaptureLevel)
    \/ Restart
    \/ WonTick

WonSpec == Init /\ [][WonNext]_vars

\* ---------------------------------------------------------- invincibility
\* InvincibleSpec runs the swarm with the sandbox's invincibility on, on
\* the boss level with the wall (1, with the clock reading that puts the
\* emitter in the sector), the charge-gated level with a black hole and a
\* static obstacle (2) and the level behind a wall (4), with and without a
\* hazard on the emitter of levels 2 and 4.  One frame has it off.
InvincibleLevels == { 2, 4 }

InvincibleFrames ==
    { Frame(FALSE, 100, Sandbox(100, FALSE, TRUE), an, cl, d) :
        an \in { NoAnomalies, HazardAtOrigin }, cl \in { ClockA, ClockB }, d \in Drives }
    \cup { Frame(FALSE, 100, DefaultSandbox, NoAnomalies, ClockA, Vec(0, 0)) }

InvincibleTick == \E f \in InvincibleFrames : TickWith(f)

InvincibleNext ==
    \/ ResetEffect
    \/ \E l \in InvincibleLevels : SelectLevel(l)
    \/ InvincibleTick

InvincibleSpec == Init /\ [][InvincibleNext]_vars

\* ------------------------------------------------- the order of a frame
\* OrderedSpec runs the callbacks of SceneSpec in the order of a frame, the
\* order in which the components are mounted (part_001 lines 201-245, the
\* parent last): Background, Anomalies, Swarm, SceneManager.  The game is
\* playing, so Anomalies replaces the list in every frame.  Pointer events,
\* the reset effect and a change of level come between two frames.  The
\* frames keep coming; the swarm's ticks are not counted against MaxTicks,
\* and with delta = 8 s an agent ages out at its second tick.
OrderedFrames == { Frame(FALSE, 8000, DefaultSandbox, NoAnomalies, ClockA, Vec(0, 0)) }

\* No frame is under way
BetweenFrames == lastOp \notin { "anomalies", "tick", "run" }

OrderedDebris == BetweenFrames /\ \E o \in 1..5 : EatDebris(o)

OrderedPointerUp == BetweenFrames /\ PointerUp

OrderedAnomalies ==
    /\ BetweenFrames
    /\ \E pool \in AnomalyPools : anomalyRef' = pool
    /\ Elsewhere("anomalies")
    /\ UNCHANGED blackHoleStateRef

OrderedTick ==
    /\ lastOp = "anomalies"
    /\ \E f \in OrderedFrames : TickUncounted([f EXCEPT !.anomalies = anomalyRef])

OrderedSupernova == lastOp \in { "tick", "run" } /\ Supernova

OrderedNext ==
    \/ BetweenFrames /\ ResetEffect
    \/ BetweenFrames /\ SelectLevel(SceneLevel)
    \/ OrderedDebris
    \/ OrderedPointerUp
    \/ OrderedAnomalies
    \/ OrderedTick
    \/ OrderedSupernova

\* The frames keep coming: a frame begins whenever none is under way, the
\* swarm's tick follows Anomalies, SceneManager's callback follows the tick.
OrderedSpec ==
    /\ Init /\ [][OrderedNext]_vars
    /\ WF_vars(OrderedAnomalies)
    /\ []<>(lastOp # "anomalies")
    /\ WF_vars(OrderedSupernova)

\* ================================================================= claims
\* The level has a finite budget and no tick since the reset emitted with
\* the sandbox's infinite fuel.
FiniteFuel == activeLevelId = levelId /\ levelConfig.particleBudget.defined /\ ~infiniteUsed

FuelReports == { calls[k][2] : k \in { j \in 1..Len(calls) : calls[j][1] = "setFuel" } }

\* C1: with a finite budget and infinite fuel off, the remaining-fuel counter
\* and every value reported through setFuel are >= 0 after every tick.
C1_FuelNeverNegative ==
    FiniteFuel => currentFuelRef >= 0 /\ \A v \in FuelReports : v >= 0

\* C2: at every tick boundary every slot with alive == false (life <= 0) has
\* deathTimer == 0, also after a tick in which an agent received a lethal
\* event and was inside the goal radius.
C2_DeadSlotsHaveNoDeathTimer ==
    \A i \in Slots : life[i] <= 0 => deathTimer[i] = 0

Fired(cs, name) == \E k \in 1..Len(cs) : cs[k][1] = name

\* C3: between two resets onLevelComplete is fired at most once, and a tick
\* fires it exactly when the cumulative capture count is below requiredCount
\* before the tick and at least requiredCount after it; nothing else fires it.
C3_LevelCompleteOnceAtThreshold ==
    [][ /\ wonCalls' <= 1
        /\ Fired(calls', "onLevelComplete") <=>
             /\ lastOp' = "run"
             /\ collectedCountRef < levelConfig.requiredCount
             /\ collectedCountRef' >= levelConfig.requiredCount ]_vars

C3_Witness ==
    /\ lastOp = "run"
    /\ Fired(calls, "onLevelComplete")
    /\ wonCalls = 1
    /\ ticks > 1
    /\ collectedCountRef >= levelConfig.requiredCount

CapturedNow(rep) == { i \in Slots : rep[i].captured }

\* C4: an agent incarnation increases the capture counter at most once, the
\* counter's increase in a tick is the number of agents captured in that
\* tick, and a captured agent's slot is free at the end of that tick.
C4_CaptureCountedOnceAndFreed ==
    [][ /\ \A i \in Slots : capCount'[i] <= 1
        /\ lastOp' = "run" =>
             /\ collectedCountRef' - collectedCountRef = Cardinality(CapturedNow(report'))
             /\ \A i \in CapturedNow(report') : life'[i] <= 0 /\ deathTimer'[i] = 0 ]_vars

IsTick(op) == op \in {"tick", "run"}

\* C5: a tick invoked while paused changes no slot array, not the fuel
\* counter, the capture counter, the won flag or the startup-skip counter
\* (frameCountRef), and fires no callback.
C5_PausedTickChangesNothing ==
    [][ IsTick(lastOp') /\ frame'.isPaused =>
          /\ UNCHANGED <<buffers, currentFuelRef, collectedCountRef, hasWonRef, frameCountRef>>
          /\ calls' = << >> ]_vars

\* C6: after a reset and before any further tick every slot is free (life 0,
\* deathTimer 0, age 0, charge 0, teleport cooldown 0), the capture counter
\* is 0, the won flag is cleared, the startup-skip counter is 0, fuel equals
\* the level's budget when one is defined, every black-hole mass counter is
\* 0, and onProgress(0) and onActiveCount(0) have been reported.
C6_ResetClearsEverything ==
    lastOp = "reset" =>
        /\ \A i \in Slots : /\ life[i] = 0 /\ deathTimer[i] = 0 /\ ages[i] = 0
                           /\ chargeState[i] = 0 /\ teleportTimer[i] = 0
        /\ collectedCountRef = 0
        /\ ~hasWonRef
        /\ frameCountRef = 0
        /\ levelConfig.particleBudget.defined => currentFuelRef = levelConfig.particleBudget.value
        /\ \A o \in 1..Len(blackHoleStateRef) : blackHoleStateRef[o] = 0
        /\ \E k \in 1..Len(calls) : calls[k] = <<"onProgress", 0>>
        /\ \E k \in 1..Len(calls) : calls[k] = <<"onActiveCount", 0>>

\* The inputs of the last tick as the stages of the pipeline read them
LastIn ==
    [dt |-> Round(frame.delta * timeScale(frame.sandboxSettings), 100),
     ts |-> timeScale(frame.sandboxSettings), inv |-> frame.sandboxSettings.invincibility,
     speedMult |-> frame.sandboxSettings.speedMult, lvl |-> levelConfig,
     anomalies |-> frame.anomalies, clock |-> frame.clock, paths |-> frame.paths]

\* The last tick took slot i's agent, live and not dying, as far as the goal
\* check: it did not age out and the boss sector did not take it.
AtGoalCheck(i) ==
    /\ lastOp = "run"
    /\ report[i].active /\ ~report[i].wasDying
    /\ report[i].age <= 1200
    /\ ~(levelConfig.isBossLevel /\ ~LastIn.inv /\ InBossSector(report[i], LastIn))

InGoalRadius(i) ==
    /\ ~report[i].xnan
    /\ DistSq(report[i].x, report[i].y, levelConfig.targetPos.x, levelConfig.targetPos.y)
         < levelConfig.targetRadius * levelConfig.targetRadius

\* C7: on a level with conversionRequired an uncharged live agent inside the
\* goal radius at its goal check enters Exploding (deathTimer = 1) and is not
\* captured; no capture is counted for an uncharged agent, in any tick and
\* whatever the sandbox settings.
C7_UnchargedNeverCaptured ==
    (activeLevelId = levelId /\ levelConfig.conversionRequired) =>
        \A i \in Slots :
            /\ (lastOp = "run" /\ report[i].captured) => report[i].charge = 1
            /\ (AtGoalCheck(i) /\ InGoalRadius(i) /\ report[i].charge = 0) =>
                   /\ deathTimer[i] = 1000 /\ life[i] = 1
                   /\ ~report[i].captured
            /\ ((life[i] = 1 \/ deathTimer[i] # 0) /\ chargeState[i] = 0) => capCount[i] = 0

C7_Witness ==
    /\ levelConfig.conversionRequired
    /\ \E i \in Slots :
         /\ AtGoalCheck(i) /\ InGoalRadius(i) /\ report[i].charge = 0
         /\ report[i].mass = 0
         /\ deathTimer[i] = 1000
         /\ capCount[i] = 0 /\ collectedCountRef = 0

\* The last tick ran the obstacle step on slot i's agent: it was live and not
\* dying, passed aging and the boss sector, and is not a Ghost (line 487).
AtObstacleStep(i) ==
    /\ lastOp = "run"
    /\ report[i].active /\ ~report[i].wasDying
    /\ report[i].age <= 1200
    /\ ~(levelConfig.isBossLevel /\ ~LastIn.inv /\ InBossSector(report[i], LastIn))
    /\ report[i].trait # TRAIT_GHOST

\* line 495: killRad = rad * 0.6
InCaptureRadius(i, o) ==
    LET killRad == Round(levelConfig.obstacleRadius * 6, 10)
        obsPos == getObstaclePos(levelConfig.obstaclePos[o])
    IN  /\ levelConfig.obstacleTypes[o] = "blackhole"
        /\ ~report[i].xnan
        /\ DistSq(report[i].x, report[i].y, obsPos.x, obsPos.y) < killRad * killRad

\* C8: a live agent (invincibility off) inside a black hole's capture radius
\* when the obstacle step runs is Imploding (deathTimer < 0) at the end of
\* that tick, and the hole's mass counter is incremented exactly once on
\* account of that agent until its slot is freed.
C8_BlackHoleImplodes ==
    \A i \in Slots :
        /\ massCount[i] <= 1
        /\ \A o \in 1..Len(levelConfig.obstaclePos) :
             (AtObstacleStep(i) /\ ~LastIn.inv /\ InCaptureRadius(i, o)) =>
                 deathTimer[i] < 0 /\ massCount[i] = 1

\* C9: with a finite budget B >= 0 and infinite fuel off throughout, the
\* number of agents spawned since the last reset never exceeds B, and no
\* agent is spawned by a tick that starts with no fuel left.
C9_SpawnsWithinBudget ==
    [][ FiniteFuel' =>
          /\ spawnedTotal' <= levelConfig'.particleBudget.value
          /\ (lastOp' = "run" /\ currentFuelRef <= 0) => spawnedTotal' = spawnedTotal ]_vars

\* The last tick took slot i's agent through the full update, up to the
\* arena bounds.
FullyUpdated(i) == lastOp = "run" /\ report[i].full

\* C10: after the full update of a live, non-dying agent its stored x lies
\* within [-ARENA_BOUNDS.x, ARENA_BOUNDS.x] and its stored y within
\* [-ARENA_BOUNDS.y, ARENA_BOUNDS.y], and where the integrated position lay
\* beyond an edge with outward velocity on that axis the stored velocity
\* component points inward, also after a wall push-out or a portal relocation
\* in the same tick.
C10_StoredPositionInArena ==
    \A i \in Slots : FullyUpdated(i) =>
        LET r == report[i]
        IN  /\ ~positions[i].nan
            /\ positions[i].x >= -ARENA_BOUNDS.x /\ positions[i].x <= ARENA_BOUNDS.x
            /\ positions[i].y >= -ARENA_BOUNDS.y /\ positions[i].y <= ARENA_BOUNDS.y
            /\ (r.moved.x > ARENA_BOUNDS.x /\ r.v.x > 0) => velocities[i].x < 0
            /\ (r.moved.x < -ARENA_BOUNDS.x /\ r.v.x < 0) => velocities[i].x > 0
            /\ (r.moved.y > ARENA_BOUNDS.y /\ r.v.y > 0) => velocities[i].y < 0
            /\ (r.moved.y < -ARENA_BOUNDS.y /\ r.v.y < 0) => velocities[i].y > 0

\* The level has no portals and one wall, of rotation 0, that spans the
\* arena's width with the emitter above its padded rectangle and the goal
\* centre below it.
FullWidthWall(lvl) ==
    /\ Len(lvl.portals) = 0
    /\ Len(lvl.walls) = 1
    /\ lvl.walls[1].rotation = 0
    /\ lvl.walls[1].position.x = 0
    /\ lvl.walls[1].size.x >= 2 * ARENA_BOUNDS.x
    /\ lvl.emitterPos.y >= lvl.walls[1].position.y + lvl.walls[1].size.y \div 2 + 20
    /\ lvl.targetPos.y <= lvl.walls[1].position.y - lvl.walls[1].size.y \div 2 - 20

\* y is on the emitter's side of (above) the wall's padded rectangle
EmitterSide(lvl, y) == y >= lvl.walls[1].position.y + lvl.walls[1].size.y \div 2 + 20

\* y is on the goal's side of (below) the wall's padded rectangle
GoalSide(lvl, y) == y <= lvl.walls[1].position.y - lvl.walls[1].size.y \div 2 - 20

\* C11: with a wall spanning the full arena width between emitter and goal,
\* no portals and invincibility off, no tick carries an agent from the
\* emitter side of the padded wall rectangle to the goal side, whatever its
\* speed, trait and the time scale (which is what keeps the capture counter
\* at 0 until fuel is exhausted).
C11_NoAgentCrossesWall ==
    (activeLevelId = levelId /\ FullWidthWall(levelConfig)
       /\ lastOp = "run" /\ ~frame.sandboxSettings.invincibility) =>
        \A i \in Slots :
            (report[i].full /\ ~report[i].xnan /\ EmitterSide(levelConfig, report[i].y)) =>
                ~(~positions[i].nan /\ GoalSide(levelConfig, positions[i].y))

\* C12: the swarm's tick and its reset are the only code that writes the
\* per-obstacle mass vector, and the Anomalies component is the only code
\* that writes the anomaly list: no other per-frame callback or input handler
\* (SceneManager's supernova check and pointer-up handler, Background's
\* debris loop) changes either.
C12_SingleWriter ==
    [][ /\ blackHoleStateRef' # blackHoleStateRef => lastOp' \in {"run", "reset"}
        /\ anomalyRef' # anomalyRef => lastOp' = "anomalies" ]_vars

\* C13: lifecycle transitions are one-way.  A slot whose agent is Exploding
\* (deathTimer > 0) stays Exploding until the slot is freed, one whose agent
\* is Imploding (deathTimer < 0) stays Imploding until the slot is freed, a
\* slot holds a live non-dying agent again only by emission into the freed
\* slot, and an agent that a black hole turned Imploding in a tick is not
\* switched to Exploding by a later step of that tick.
C13_LifecycleOneWay ==
    [][ \A i \in Slots :
          /\ deathTimer[i] > 0 =>
                 deathTimer'[i] > 0 \/ (deathTimer'[i] = 0 /\ life'[i] <= 0)
          /\ deathTimer[i] < 0 =>
                 deathTimer'[i] < 0 \/ (deathTimer'[i] = 0 /\ life'[i] <= 0)
          /\ (~(life[i] > 0 /\ deathTimer[i] = 0) /\ life'[i] > 0 /\ deathTimer'[i] = 0) =>
                 IsFree(SlotRec(i)) /\ lastOp' = "run" /\ report'[i].spawned
          /\ (lastOp' = "run" /\ report'[i].mass # 0) => deathTimer'[i] < 0 ]_vars

\* The slots that are free when a tick starts: alive == false, deathTimer == 0
FreeSlots == { i \in Slots : life[i] <= 0 /\ deathTimer[i] = 0 }

C15_OneTerminalOutcome ==
    \A i \in Slots :
        /\ (lastOp = "run" /\ report[i].lethal) => ~report[i].captured
        /\ massCount[i] > 0 => capCount[i] = 0 /\ deathTimer[i] <= 0

\* The last tick took slot i's agent, live and not dying, as far as the boss
\* check: it did not age out.
AtBossCheck(i) ==
    /\ lastOp = "run"
    /\ report[i].active /\ ~report[i].wasDying
    /\ report[i].age <= 1200

\* Within the kill radius (10.0) of the goal centre and inside the rotating
\* sector, whatever the distance to the centre
InKillRadiusAndSector(w, in) ==
    LET dx == w.x - in.lvl.targetPos.x
        dy == w.y - in.lvl.targetPos.y
        q == in.clock.rot % 4
        localX == IF q = 0 THEN dx ELSE IF q = 1 THEN -dy ELSE IF q = 2 THEN -dx ELSE dy
        localY == IF q = 0 THEN dy ELSE IF q = 1 THEN dx ELSE IF q = 2 THEN -dy ELSE -dx
    IN  /\ ~w.xnan
        /\ dx * dx + dy * dy < 1000 * 1000
        /\ localY > 0 /\ 10000 * localX > -4577 * localY

\* The boss sector took slot i's agent in the last tick and every remaining
\* step was skipped for it.
KilledBySector(i) ==
    /\ deathTimer[i] = 1000 /\ life[i] = 1
    /\ positions[i] = [x |-> report[i].x, y |-> report[i].y, nan |-> report[i].xnan]
    /\ velocities[i] = report[i].v
    /\ ~report[i].tp /\ ~report[i].pushed /\ ~report[i].full
    /\ report[i].mass = 0
    /\ ~report[i].captured

\* C16 as stated: on a boss level with invincibility off, an agent within the
\* kill radius of the goal and inside the rotating sector enters Exploding in
\* that tick and every remaining step is skipped for it.
C16_SectorKillsWithinRadius ==
    \A i \in Slots :
        (AtBossCheck(i) /\ levelConfig.isBossLevel /\ ~LastIn.inv
           /\ InKillRadiusAndSector(report[i], LastIn)) => KilledBySector(i)

\* C16, amended: on a boss level with invincibility off, an agent inside the
\* rotating sector whose distance to the goal centre is below the kill radius
\* (10.0) and above 1.6 enters Exploding (deathTimer = 1) in that tick and
\* every remaining step is skipped for it: stored position and velocity are
\* those it had when the tick began, it is not teleported, no mass counter
\* changes on its account and it is not captured.
C16_SectorKillsInKillZone ==
    \A i \in Slots :
        (AtBossCheck(i) /\ levelConfig.isBossLevel /\ ~LastIn.inv
           /\ InBossSector(report[i], LastIn)) => KilledBySector(i)

C16_Witness ==
    \E i \in Slots :
        /\ AtBossCheck(i) /\ levelConfig.isBossLevel /\ ~LastIn.inv
        /\ InBossSector(report[i], LastIn)
        /\ report[i].lethal
        /\ deathTimer[i] = 1000

\* The restricted update: slot i's agent started the tick in a death
\* animation and the tick only moved its timer (and, Imploding, coasted it).
RestrictedUpdate(i) ==
    /\ ages'[i] = ages[i] /\ chargeState'[i] = chargeState[i] /\ traits'[i] = traits[i]
    /\ velocities'[i] = velocities[i]
    /\ ~report'[i].spawned /\ ~report'[i].tp /\ ~report'[i].pushed /\ ~report'[i].full
    /\ report'[i].mass = 0 /\ ~report'[i].lethal /\ ~report'[i].captured
    /\ capCount'[i] = capCount[i] /\ massCount'[i] = massCount[i]

\* An Exploding agent keeps its stored position; its timer goes strictly
\* toward 0 and the slot is freed in the tick the timer reaches or crosses 0.
ExplodingStep(i) ==
    /\ positions'[i] = positions[i]
    /\ deathTimer'[i] < deathTimer[i] /\ deathTimer'[i] >= 0
    /\ deathTimer'[i] = 0 <=> deathTimer[i] - 4 * LastIn'.dt <= 0
    /\ IF deathTimer'[i] = 0 THEN life'[i] = 0 ELSE life'[i] = life[i]

ImplodingStep(i) ==
    /\ deathTimer'[i] > deathTimer[i] /\ deathTimer'[i] <= 0
    /\ deathTimer'[i] = 0 <=> 2 * deathTimer[i] + 3 * LastIn'.dt >= 0
    /\ IF deathTimer'[i] = 0 THEN life'[i] = 0 /\ positions'[i] = positions[i]
       ELSE life'[i] = life[i]

\* C17: an agent that starts a tick in a death animation runs only the
\* restricted update: it does not age, is not charged, receives no force, is
\* not teleported, changes no mass counter and is not captured.  An Exploding
\* agent's stored position and velocity stay as they were at the moment it
\* was killed until the slot is freed, its timer strictly decreases from 1
\* toward 0 (an Imploding agent's strictly increases from -1 toward 0), the
\* slot is freed with deathTimer 0 in the tick the timer reaches or crosses 0,
\* and deathTimer is always within [-1, 1].
C17_DeathAnimationRestricted ==
    [][ \A i \in Slots :
          /\ deathTimer'[i] \in -1000..1000
          /\ (lastOp' = "run" /\ deathTimer[i] # 0) =>
                 /\ RestrictedUpdate(i)
                 /\ IF deathTimer[i] > 0 THEN ExplodingStep(i) ELSE ImplodingStep(i)
          \* the tick that kills: the stored position is the one the agent
          \* had when the lethal event set the timer
          /\ (lastOp' = "run" /\ report'[i].lethal /\ deathTimer'[i] > 0
                /\ ~report'[i].pushed) =>
                 positions'[i] = [x |-> report'[i].x, y |-> report'[i].y,
                                  nan |-> report'[i].xnan] ]_vars

\* The black holes of the level; every level here has at most one, so an
\* Imploding agent on whose account a mass counter went up was taken by it.
BlackHoles(lvl) == { o \in 1..Len(lvl.obstaclePos) : lvl.obstacleTypes[o] = "blackhole" }

\* Squared distance of a stored position to the centre of obstacle o
HoleDistSq(pos, lvl, o) ==
    DistSq(pos.x, pos.y, getObstaclePos(lvl.obstaclePos[o]).x, getObstaclePos(lvl.obstaclePos[o]).y)

\* C18: while an agent is Imploding after capture by a stationary black hole,
\* its distance to that hole's centre never increases from one tick to the
\* next: the velocity it coasts with points toward the hole.
C18_ImplodingApproachesHole ==
    [][ \A i \in Slots : \A o \in BlackHoles(levelConfig) :
          (lastOp' = "run" /\ deathTimer[i] < 0 /\ massCount[i] > 0
             /\ ~positions[i].nan /\ ~positions'[i].nan) =>
              HoleDistSq(positions'[i], levelConfig, o) <= HoleDistSq(positions[i], levelConfig, o) ]_vars

\* Slot i's agent was inside a charge zone when the last tick checked the zones
InChargeZone(i) ==
    \E k \in 1..Len(levelConfig.chargers) :
        Within(report[i], levelConfig.chargers[k].position, levelConfig.chargers[k].radius)

\* C19: once an agent's charged flag is set it stays set for the rest of that
\* incarnation: no step of a tick clears it while the agent is alive or
\* dying, and no other operation touches it; it is cleared only when the slot
\* is respawned by emission or by a reset, and a newly spawned agent starts
\* uncharged: it is charged after its first tick only if that tick's zone
\* check found it inside a charge zone.
C19_ChargedStaysCharged ==
    [][ \A i \in Slots :
          /\ (chargeState[i] = 1 /\ chargeState'[i] # 1) =>
                 lastOp' = "reset" \/ (lastOp' = "run" /\ report'[i].spawned)
          /\ chargeState'[i] # chargeState[i] => lastOp' \in {"reset", "run"}
          /\ (lastOp' = "run" /\ report'[i].spawned /\ chargeState'[i] = 1) =>
                 AtBossCheck(i)' /\ InChargeZone(i)' ]_vars

\* A charged agent ran a full update outside every charge zone and is still
\* charged.
C19_Witness ==
    \E i \in Slots :
        /\ lastOp = "run" /\ report[i].full /\ ~report[i].spawned
        /\ ~InChargeZone(i)
        /\ chargeState[i] = 1 /\ life[i] > 0

\* The portal mouths that held slot i's agent when the last tick read its position
MouthsAround(i) ==
    { k \in 1..Len(levelConfig.portals) : Within(report[i], levelConfig.portals[k].position, 100) }

\* Slot i's cooldown when the tick reaches the portal step: 0 for an agent
\* spawned in this tick, else the stored value less the tick's dt if it was > 0
CooldownAtPortals(i) ==
    LET before == IF report'[i].spawned THEN 0 ELSE teleportTimer[i]
    IN  IF before > 0 THEN before - LastIn'.dt ELSE before

\* C20: an agent whose teleport cooldown is > 0 is never relocated by a
\* portal; a relocation sets the cooldown to 1.0, and the cooldown of an agent
\* that is not relocated goes down by the scaled dt in every running tick
\* while it is > 0; two relocations of the same agent are separated by at
\* least 1.0 of scaled dt; and an agent is relocated at most once per tick:
\* exactly one mouth held it, and no tick relocates it back through the
\* paired mouth.
C20_PortalCooldown ==
    [][ lastOp' = "run" =>
          \A i \in Slots :
            /\ report'[i].tp =>
                   /\ CooldownAtPortals(i) <= 0
                   /\ teleportTimer'[i] = 1000
                   /\ Cardinality(MouthsAround(i)') = 1
                   /\ report'[i].spawned
                        \/ sinceTeleport[i] + LastIn'.dt >= 1000
            /\ (report'[i].active /\ ~report'[i].tp) =>
                   teleportTimer'[i] = CooldownAtPortals(i)
            /\ ~report'[i].active => teleportTimer'[i] = teleportTimer[i] ]_vars

\* An agent stood inside a portal mouth with its cooldown running and the
\* tick, run to the end, left it where it was.
C20_Witness ==
    \E i \in Slots :
        /\ lastOp = "run" /\ report[i].full /\ ~report[i].wasDying
        /\ MouthsAround(i) # {}
        /\ report[i].tele > 0 /\ ~report[i].tp
        /\ sinceTeleport[i] < 1000

\* Agents spawned by the last tick
SpawnedIn(rep) == Cardinality({ i \in Slots : rep[i].spawned })

\* EMITTER_RATE * timeScale of the tick that read frame f, in hundredths
RateOf(f) == EMITTER_RATE * timeScale(f.sandboxSettings)

\* C21: the number of agents spawned in one tick stays below
\* emitterRate x timeScale + 1, and a fractional product is accumulated
\* across ticks: over consecutive emitting ticks the total number spawned
\* exceeds the sum of the products by less than 1, so that a product of 0.2
\* does not spawn in two ticks in a row.
C21_SpawnRateAccumulated ==
    [][ lastOp' = "run" =>
          /\ 100 * SpawnedIn(report') < RateOf(frame') + 100
          /\ lastOp = "run" =>
                100 * (SpawnedIn(report) + SpawnedIn(report'))
                    < RateOf(frame) + RateOf(frame') + 100 ]_vars

\* What the swarm owns: the slot arrays, the fuel, the capture counter, the
\* won flag and the mass vector
SwarmState ==
    <<buffers, currentFuelRef, collectedCountRef, hasWonRef, blackHoleStateRef, spawnedTotal>>

\* C22: after a reset no agent is spawned, no slot, fuel value, capture
\* counter or mass counter changes and no callback fires until 20 ticks have
\* been skipped; each of those ticks only counts itself; from the next tick
\* on, a tick that is not paused, has dt > 0 and finds the level not won runs
\* the full pipeline and leaves the counter alone; the counter never
\* exceeds 20.
C22_WarmupSkipsTwentyTicks ==
    [][ /\ frameCountRef' <= 20
        /\ (IsTick(lastOp') /\ activeLevelId = levelId /\ ~hasWonRef /\ frameCountRef < 20) =>
               /\ lastOp' = "tick"
               /\ frameCountRef' = frameCountRef + 1
               /\ UNCHANGED SwarmState
               /\ calls' = << >>
        /\ (IsTick(lastOp') /\ activeLevelId = levelId /\ ~hasWonRef /\ frameCountRef = 20) =>
               /\ frameCountRef' = 20
               /\ lastOp' = "run" <=>
                      (~frame'.isPaused
                         /\ frame'.delta * timeScale(frame'.sandboxSettings) > 0) ]_vars

\* After a second reset the swarm skipped 20 ticks again and the tick after
\* them ran the pipeline and spawned.
C22_Witness ==
    /\ lastOp = "run"
    /\ frameCountRef = 20
    /\ resetKey > 0
    /\ ticks = 1
    /\ spawnedTotal > 0

\* C23: every spawned agent's slot is eventually freed.  Under continued
\* unpaused ticks with dt bounded below and the level not won, a slot that
\* holds a live or dying agent is free again after finitely many ticks: the
\* agent is captured, killed or aged out and its death animation completes.
C23_EverySlotEventuallyFreed ==
    \A i \in Slots :
        (life[i] > 0 \/ deathTimer[i] # 0) ~> ((life[i] <= 0 /\ deathTimer[i] = 0) \/ hasWonRef)

\* A tick freed a slot whose agent had passed the age cap, and another whose
\* death animation had run out.
C23_Witness ==
    /\ lastOp = "run" /\ ~hasWonRef
    /\ \E i \in Slots :
         /\ life[i] <= 0 /\ deathTimer[i] = 0
         /\ report[i].active
         /\ report[i].age > 1200 \/ report[i].wasDying

\* C24: no tick stores a non-finite value into a position or a velocity,
\* also when an agent's position coincides exactly with the centre of an
\* active anomaly or of a black hole or pulsar.
C24_NoNaNStored ==
    \A i \in Slots : ~positions[i].nan /\ ~velocities[i].nan

\* C25: malformed level data is treated as the feature being absent: while a
\* level is run whose charge zones all have a negative radius no agent is
\* charged, and while a level is run whose goal has a negative radius no
\* agent is captured or killed by the goal.
C25_NegativeRadiusIsAbsent ==
    (lastOp = "run") =>
        \A i \in Slots :
            /\ (\A k \in 1..Len(levelConfig.chargers) : levelConfig.chargers[k].radius < 0)
                   => chargeState[i] = 0
            /\ levelConfig.targetRadius < 0
                   => ~report[i].captured /\ ~report[i].goalKill

\* The polylines of the last tick's path list that the search considers for
\* slot i's agent and that hold, among the points it samples, one at the
\* distance of the point it chose; indexes from 0 as in the source
SampledDistSq(path, x, y) ==
    { (x - path[p].x) * (x - path[p].x) + (y - path[p].y) * (y - path[p].y) :
        p \in { q \in 1..Len(path) : q % 2 = 1 } }

TiedPaths(i) ==
    { k \in 0..(Len(frame.paths) - 1) :
        /\ Len(frame.paths[k + 1]) >= 2
        /\ report[i].closest.distSq
               \in SampledDistSq(frame.paths[k + 1], report[i].x, report[i].y) }

\* C26: when several polylines hold a sampled point at the same smallest
\* distance from an agent, within the radius of influence, the search
\* chooses the most recently added of them, the one of highest index.
C26_TieGoesToNewestPath ==
    \A i \in Slots :
        (lastOp = "run" /\ report[i].closest.pathIdx # -1)
            => \A k \in TiedPaths(i) : k <= report[i].closest.pathIdx

\* What the search does on a tie: the oldest of the tied polylines, the one
\* of lowest index, is chosen.
C26_TieGoesToOldestPath ==
    \A i \in Slots :
        (lastOp = "run" /\ report[i].closest.pathIdx # -1)
            => \A k \in TiedPaths(i) : k >= report[i].closest.pathIdx

\* A tick searched two tied polylines for an agent
C26_Witness ==
    \E i \in Slots :
        /\ lastOp = "run" /\ report[i].closest.pathIdx # -1
        /\ Cardinality(TiedPaths(i)) >= 2

\* Captures the tick that produced report rep counted
CapturedIn(rep) == Cardinality({ i \in Slots : rep[i].captured })

ProgressValues(cs) == { cs[k][2] : k \in { j \in 1..Len(cs) : cs[j][1] = "onProgress" } }

\* C27: a tick that finds levelConfig.id different from the id the last
\* reset recorded changes no buffer and no ref and fires no callback.  The
\* capture counter and the won flag are cleared by every reset, which
\* records the level's id; nothing but a tick changes them afterwards, a
\* tick adds to the counter the captures it counted itself, and a tick
\* that fires onProgress or onLevelComplete found the recorded id current,
\* passes the counter so built and found the won flag clear.
C27_StaleLevelTickIsInert ==
    [][ /\ (IsTick(lastOp') /\ activeLevelId # levelId) =>
              /\ UNCHANGED <<buffers, refs>>
              /\ calls' = << >>
        /\ lastOp' = "reset" =>
              collectedCountRef' = 0 /\ ~hasWonRef' /\ activeLevelId' = levelId
        /\ IsTick(lastOp') =>
              /\ collectedCountRef' = collectedCountRef + CapturedIn(report')
              /\ activeLevelId' = activeLevelId
              /\ Fired(calls', "onProgress") =>
                    /\ activeLevelId = levelId
                    /\ CapturedIn(report') > 0
                    /\ ProgressValues(calls') = { collectedCountRef' }
              /\ Fired(calls', "onLevelComplete") =>
                    /\ activeLevelId = levelId
                    /\ ~hasWonRef
                    /\ CapturedIn(report') > 0
        /\ (~IsTick(lastOp') /\ lastOp' # "reset") =>
              UNCHANGED <<collectedCountRef, hasWonRef, activeLevelId>> ]_vars

\* A tick has just returned at the level-id guard with the previous level's
\* captures still counted and its won flag still set
C27_Witness ==
    /\ lastOp = "tick"
    /\ activeLevelId # levelId
    /\ collectedCountRef > 0
    /\ hasWonRef

\* C28: once onLevelComplete has fired, every tick until the next reset
\* changes no slot array, not the fuel, the capture counter, the won flag,
\* the startup-skip counter or the mass vector, and fires no callback; the
\* won flag is set by the tick that fires onLevelComplete and stays set
\* until the reset.
C28_TicksAfterWinAreInert ==
    [][ /\ (IsTick(lastOp') /\ wonCalls > 0) =>
              /\ UNCHANGED <<buffers, refs>>
              /\ calls' = << >>
        /\ Fired(calls', "onLevelComplete") => hasWonRef'
        /\ (hasWonRef /\ lastOp' # "reset") => hasWonRef' ]_vars

\* A tick has just returned at the won guard while an agent is alive
C28_Witness ==
    /\ lastOp = "tick"
    /\ wonCalls > 0
    /\ activeLevelId = levelId
    /\ \E i \in Slots : life[i] > 0 /\ deathTimer[i] = 0

\* C29: in a tick with invincibility on, no agent enters Imploding, no mass
\* counter is incremented, and an agent that enters Exploding entered the
\* goal uncharged on a level that requires conversion.
C29_InvincibleDiesOnlyAtGoal ==
    [][ (lastOp' = "run" /\ frame'.sandboxSettings.invincibility) =>
          /\ blackHoleStateRef' = blackHoleStateRef
          /\ \A i \in Slots :
                /\ deathTimer'[i] < 0 => deathTimer[i] < 0
                /\ report'[i].mass = 0
                /\ (deathTimer'[i] > 0 /\ ~(deathTimer[i] > 0)) =>
                      /\ report'[i].goalKill
                      /\ levelConfig.conversionRequired
                      /\ report'[i].charge = 0
                /\ report'[i].lethal => report'[i].goalKill ]_vars

\* A tick with invincibility on has just killed an agent that entered the
\* goal uncharged
C29_Witness ==
    /\ lastOp = "run"
    /\ frame.sandboxSettings.invincibility
    /\ \E i \in Slots : report[i].goalKill /\ deathTimer[i] > 0

\* The pulses SceneManager appends: a supernova's at the black hole, a
\* click's at the click point
ScenePulses ==
    { [position |-> levelConfig.obstaclePos[o], radius |-> 800, isActive |-> TRUE,
       type |-> "pulse"] : o \in BlackHoles(levelConfig) }
    \cup { [position |-> pt, radius |-> 500, isActive |-> TRUE, type |-> "pulse"] :
             pt \in ClickPoints }

Holds(list, an) == \E k \in 1..Len(list) : list[k] = an

\* The swarm's next tick runs the pipeline unless the level is then won
SwarmRunning == activeLevelId = levelId /\ ~effectPending /\ frameCountRef >= WarmupFrames

\* C30: with the callbacks in the order of a frame and the game playing, a
\* pulse that SceneManager has appended to the shared list, on a supernova
\* or a click, is in the list some tick of the running swarm reads, unless
\* the level is won or left first.
C30_ScenePulseIsRead ==
    \A o \in 1..1, pt \in ClickPoints :
        \A pu \in { [position |-> Levels[SceneLevel].obstaclePos[o], radius |-> 800,
                      isActive |-> TRUE, type |-> "pulse"],
                     [position |-> pt, radius |-> 500, isActive |-> TRUE, type |-> "pulse"] } :
            (lastOp \in { "supernova", "pointerUp" } /\ Holds(anomalyRef, pu)
                /\ levelId = SceneLevel /\ SwarmRunning)
              ~> ((lastOp = "run" /\ Holds(frame.anomalies, pu))
                    \/ hasWonRef \/ effectPending)

\* What the order of a frame gives: no tick reads a list with a pulse of
\* SceneManager's in it.
C30_ScenePulseIsNeverRead ==
    IsTick(lastOp) => \A pu \in ScenePulses : ~Holds(frame.anomalies, pu)
====
